---- MODULE Spec2Model ----
(***************************************************************************)
(* Model of getCheapestModAssignments (loadout-builder mod utilities):     *)
(* the greedy pass over bucket specific mods, the search over triples of   *)
(* activity, combat and general mod permutations, and the final merge.     *)
(*                                                                         *)
(* A mod inside an assignment list is the index of the mod in the input    *)
(* array `mods`; an armour item is named by its index in `items` (item.id).*)
(***************************************************************************)
EXTENDS Integers, Sequences, FiniteSets, TLC

\* ------------------------------------------------------------------ bounds
MaxItems == 2
MaxMods == 3

\* "just an arbitrarily large number"
InitialEnergyCost == 10000
InitialUnassignedModCount == 10000

\* the hole of a permutation (null / undefined in the source)
Absent == 0
\* no mod type tag for a plug category hash (undefined in the source)
NoTag == "none"

\* ------------------------------------------------- external lookup tables
armor2PlugCategoryHashesByName == [general |-> "general"]
combatCompatiblePlugCategoryHashes == {"combat"}
activityModPlugCategoryHashes == {"raid", "nightmare"}
bucketsToCategories == [helmet |-> "helmetMod", chest |-> "chestMod"]

getModTypeTagByPlugCategoryHash(pch) ==
  CASE pch = "combat" -> "combatTag"
    [] pch = "raid" -> "raidTag"
    [] OTHER -> NoTag

\* ------------------------------------------------------- input catalogues
\* PluggableInventoryItemDefinition: plug.plugCategoryHash, plug.energyCost
ModPool ==
  { [pch |-> "general",   cost |-> 2, type |-> "Arc"],
    [pch |-> "combat",    cost |-> 2, type |-> "Solar"],
    [pch |-> "raid",      cost |-> 3, type |-> "Arc"],
    [pch |-> "nightmare", cost |-> 1, type |-> "Any"],
    [pch |-> "helmetMod", cost |-> 1, type |-> "Any"],
    [pch |-> "helmetMod", cost |-> 2, type |-> "Solar"] }

\* DimItem: bucket.hash, energy (capacity 0 / type Any when item.energy is
\* missing), and what the definitions and the upgrade spend tier give for it:
\* maxEnergy (upgradeSpendTierToMaxEnergy), canSwap (whether the tier lets the
\* energy type change), socketMetadata (getSpecialtySocketMetadatas).
ItemPool ==
  { [bucket |-> "helmet", energyCapacity |-> 2, energyType |-> "Arc",
     maxEnergy |-> 4, canSwap |-> FALSE,
     socketMetadata |-> {{"combatTag"}}],
    [bucket |-> "helmet", energyCapacity |-> 0, energyType |-> "Any",
     maxEnergy |-> 2, canSwap |-> FALSE,
     socketMetadata |-> {}],
    [bucket |-> "chest", energyCapacity |-> 4, energyType |-> "Arc",
     maxEnergy |-> 4, canSwap |-> TRUE,
     socketMetadata |-> {{"combatTag", "raidTag"}}] }

SeqsUpTo(S, n) == UNION { [1..k -> S] : k \in 0..n }

VARIABLES
  items, mods, defs, lockItemEnergyType,      \* the arguments
  pc,                                         \* position in the function
  bucketSpecificAssignments, itemEnergies,
  generalModPermutations, combatModPermutations, activityModPermutations,
  ai, ci, gi,                                 \* the three loop cursors
  bucketIndependentAssignments, assignmentEnergyCost, assignmentUnassignedModCount,
  lastOutcome,                                \* what the last triple did
  mergedResults, unassigned                   \* the returned pair

vars == << items, mods, defs, lockItemEnergyType, pc,
           bucketSpecificAssignments, itemEnergies,
           generalModPermutations, combatModPermutations, activityModPermutations,
           ai, ci, gi,
           bucketIndependentAssignments, assignmentEnergyCost,
           assignmentUnassignedModCount, lastOutcome,
           mergedResults, unassigned >>

\* ----------------------------------------------------------------- helpers
Max(a, b) == IF a >= b THEN a ELSE b

\* _.sumBy(assignedMods, (mod) => mod.plug.energyCost?.energyCost || 0)
RECURSIVE sumCost(_)
sumCost(ms) == IF ms = << >> THEN 0 ELSE mods[Head(ms)].cost + sumCost(Tail(ms))

\* first concrete energy type among the mods of a list, "Any" when none
RECURSIVE firstConcreteType(_)
firstConcreteType(ms) ==
  IF ms = << >> THEN "Any"
  ELSE IF mods[Head(ms)].type # "Any" THEN mods[Head(ms)].type
  ELSE firstConcreteType(Tail(ms))

upgradeSpendTierToMaxEnergy(item) == item.maxEnergy

getItemEnergyType(item, assignedMods) ==
  IF lockItemEnergyType THEN item.energyType
  ELSE IF firstConcreteType(assignedMods) # "Any" THEN firstConcreteType(assignedMods)
  ELSE IF item.canSwap THEN "Any"
  ELSE item.energyType

buildItemEnergy(item, assignedMods) ==
  [ used |-> sumCost(assignedMods),
    originalCapacity |-> item.energyCapacity,
    derivedCapacity |-> upgradeSpendTierToMaxEnergy(item),
    originalType |-> item.energyType,
    derivedType |-> getItemEnergyType(item, assignedMods) ]

\* the validity test with the energy capacity left out
isBucketSpecificModValidAnyCost(item, mod, assignedMods) ==
  LET itemEnergyType == getItemEnergyType(item, assignedMods)
  IN \/ mods[mod].type = itemEnergyType
     \/ mods[mod].type = "Any"
     \/ itemEnergyType = "Any"

isBucketSpecificModValid(item, mod, assignedMods) ==
  LET itemEnergyCapacity == upgradeSpendTierToMaxEnergy(item)
      itemEnergyType == getItemEnergyType(item, assignedMods)
      energyUsed == sumCost(assignedMods)
      energyTypeIsValid == \/ mods[mod].type = itemEnergyType
                           \/ mods[mod].type = "Any"
                           \/ itemEnergyType = "Any"
  IN energyTypeIsValid /\ energyUsed + mods[mod].cost <= itemEnergyCapacity

isModEnergyValid(itemEnergy, modToAssign, assignedMods) ==
  /\ itemEnergy.used + mods[modToAssign].cost + sumCost(assignedMods)
        <= itemEnergy.derivedCapacity
  /\ \/ itemEnergy.derivedType = "Any"
     \/ mods[modToAssign].type = itemEnergy.derivedType
     \/ mods[modToAssign].type = "Any"

\* the activity test with the socket metadata left out
isActivityModValidAnySocket(activityMod, itemSocketMetadata, itemEnergy) ==
  /\ isModEnergyValid(itemEnergy, activityMod, << >>)
  /\ getModTypeTagByPlugCategoryHash(mods[activityMod].pch) # NoTag

\* the activity test letting a mod without a tag through
isActivityModValidUntagged(activityMod, itemSocketMetadata, itemEnergy) ==
  LET modTag == getModTypeTagByPlugCategoryHash(mods[activityMod].pch)
  IN /\ isModEnergyValid(itemEnergy, activityMod, << >>)
     /\ \/ modTag = NoTag
        \/ \E metadata \in itemSocketMetadata : modTag \in metadata

isActivityModValid(activityMod, itemSocketMetadata, itemEnergy) ==
  LET modTag == getModTypeTagByPlugCategoryHash(mods[activityMod].pch)
  IN /\ isModEnergyValid(itemEnergy, activityMod, << >>)
     /\ modTag # NoTag
     /\ \E metadata \in itemSocketMetadata : modTag \in metadata

isCombatModValid(combatMod, assignedMods, itemSocketMetadata, itemEnergy) ==
  LET modTag == getModTypeTagByPlugCategoryHash(mods[combatMod].pch)
  IN /\ isModEnergyValid(itemEnergy, combatMod, assignedMods)
     /\ modTag # NoTag
     /\ \E metadata \in itemSocketMetadata : modTag \in metadata

\* the loop of calculateEnergyChange that resolves the final energy type
finalEnergyType(itemEnergy, assignedMods) ==
  IF itemEnergy.derivedType # "Any" THEN itemEnergy.derivedType
  ELSE firstConcreteType(assignedMods)

\* the energy change with no waste counted for a changed energy type
calculateEnergyChangeNoWaste(itemEnergy, assignedMods) ==
  LET finalEnergy == finalEnergyType(itemEnergy, assignedMods)
      modCost == itemEnergy.used + sumCost(assignedMods)
  IN IF finalEnergy = itemEnergy.originalType \/ finalEnergy = "Any"
     THEN Max(0, modCost - itemEnergy.originalCapacity)
     ELSE modCost

calculateEnergyChange(itemEnergy, assignedMods) ==
  LET finalEnergy == finalEnergyType(itemEnergy, assignedMods)
      modCost == itemEnergy.used + sumCost(assignedMods)
      energyUsedAndWasted == modCost + itemEnergy.originalCapacity
      energyInvested == Max(0, modCost - itemEnergy.originalCapacity)
  IN IF finalEnergy = itemEnergy.originalType \/ finalEnergy = "Any"
     THEN energyInvested
     ELSE energyUsedAndWasted

\* ------------------------------------------------------ mod permutations
\* every placement of mod m into a hole of permutation p at position >= q
RECURSIVE placeInHoles(_, _, _)
placeInHoles(p, m, q) ==
  IF q > Len(p) THEN << >>
  ELSE (IF p[q] = Absent THEN << [p EXCEPT ![q] = m] >> ELSE << >>)
        \o placeInHoles(p, m, q + 1)

RECURSIVE placeInAll(_, _)
placeInAll(ps, m) ==
  IF ps = << >> THEN << >>
  ELSE placeInHoles(Head(ps), m, 1) \o placeInAll(Tail(ps), m)

RECURSIVE placeMods(_, _)
placeMods(pool, len) ==
  IF pool = << >> THEN << [i \in 1..len |-> Absent] >>
  ELSE placeInAll(placeMods(SubSeq(pool, 1, Len(pool) - 1), len), pool[Len(pool)])

\* every placement of the pool's mods over the item positions, the pool padded
\* with Absent up to the number of items; one all-Absent permutation for an
\* empty pool
generateModPermutations(pool) == placeMods(pool, Max(Len(items), Len(pool)))

\* permutation[i] of the source: undefined past the end of the array
permAt(permutation, i) == IF i \in DOMAIN permutation THEN permutation[i] ELSE Absent

\* ---------------------------------------------- dividing up the locked mods
\* items.find((item) => mod.plug.plugCategoryHash === bucketsToCategories[item.bucket.hash])
itemForMod(mod) ==
  LET matching == { i \in DOMAIN items : mods[mod].pch = bucketsToCategories[items[i].bucket] }
  IN IF matching = {} THEN 0 ELSE CHOOSE i \in matching : \A j \in matching : i <= j

emptyAssignments == [i \in DOMAIN items |-> [assigned |-> << >>, unassigned |-> << >>]]

\* one turn of the loop over mods; st holds the three pools and the bucket
\* specific assignments built so far
divideMod(st, mod) ==
  IF mods[mod].pch = armor2PlugCategoryHashesByName.general
    THEN [st EXCEPT !.generalMods = Append(@, mod)]
  ELSE IF mods[mod].pch \in combatCompatiblePlugCategoryHashes
    THEN [st EXCEPT !.combatMods = Append(@, mod)]
  ELSE IF mods[mod].pch \in activityModPlugCategoryHashes
    THEN [st EXCEPT !.activityMods = Append(@, mod)]
  ELSE LET it == itemForMod(mod)
       IN IF it = 0 THEN st
          ELSE IF isBucketSpecificModValid(items[it], mod, st.bucketSpecific[it].assigned)
            THEN [st EXCEPT !.bucketSpecific[it].assigned = Append(@, mod)]
          ELSE [st EXCEPT !.bucketSpecific[it].unassigned = Append(@, mod)]

RECURSIVE divideMods(_)
divideMods(k) ==
  IF k = 0
  THEN [generalMods |-> << >>, combatMods |-> << >>, activityMods |-> << >>,
        bucketSpecific |-> emptyAssignments]
  ELSE divideMod(divideMods(k - 1), k)

\* ------------------------------------------------------ one item of a triple
\* the body of the loop over items, up to the early exit
itemAssignment(i, activityPermutation, combatPermutation, generalPermutation) ==
  LET activityMod == permAt(activityPermutation, i)
      combatMod == permAt(combatPermutation, i)
      generalMod == permAt(generalPermutation, i)
      metadata == items[i].socketMetadata
      energy == itemEnergies[i]
      actOk == activityMod # Absent /\ isActivityModValid(activityMod, metadata, energy)
      a1 == IF actOk THEN << activityMod >> ELSE << >>
      u1 == IF activityMod # Absent /\ ~actOk THEN << activityMod >> ELSE << >>
      comOk == combatMod # Absent /\ isCombatModValid(combatMod, a1, metadata, energy)
      a2 == IF comOk THEN Append(a1, combatMod) ELSE a1
      u2 == IF combatMod # Absent /\ ~comOk THEN Append(u1, combatMod) ELSE u1
      genOk == generalMod # Absent /\ isModEnergyValid(energy, generalMod, a2)
      a3 == IF genOk THEN Append(a2, generalMod) ELSE a2
      u3 == IF generalMod # Absent /\ ~genOk THEN Append(u2, generalMod) ELSE u2
  IN [assigned |-> a3, unassigned |-> u3]

\* the early exit taken already when the count only ties the best
exitsEarlyOnTie(unassignedModCount, unassignedLength, bestCount) ==
  unassignedModCount + unassignedLength >= bestCount

\* if (unassignedModCount + unassigned.length > assignmentUnassignedModCount) continue modLoop
exitsEarly(unassignedModCount, unassignedLength, bestCount) ==
  unassignedModCount + unassignedLength > bestCount

\* the loop over items of one triple: completed is FALSE when it hit `continue modLoop`
RECURSIVE itemLoop(_, _, _, _, _, _)
itemLoop(i, unassignedModCount, assignments, ap, cp, gp) ==
  IF i > Len(items)
  THEN [completed |-> TRUE, unassignedModCount |-> unassignedModCount,
        assignments |-> assignments]
  ELSE LET here == itemAssignment(i, ap, cp, gp)
       IN IF exitsEarly(unassignedModCount, Len(here.unassigned),
                        assignmentUnassignedModCount)
          THEN [completed |-> FALSE, unassignedModCount |-> unassignedModCount,
                assignments |-> assignments]
          ELSE itemLoop(i + 1, unassignedModCount + Len(here.unassigned),
                        Append(assignments, here), ap, cp, gp)

\* energyUsedAndWasted summed over the assignments of a triple
RECURSIVE energyOf(_, _)
energyOf(assignments, i) ==
  IF i = 0 THEN 0
  ELSE energyOf(assignments, i - 1)
       + calculateEnergyChange(itemEnergies[i], assignments[i].assigned)

\* the replacement test letting a triple with an equal energy cost through
isBetterOrEqual(unassignedModCount, energyUsedAndWasted, bestCount, bestCost) ==
  \/ unassignedModCount < bestCount
  \/ (unassignedModCount <= bestCount /\ energyUsedAndWasted <= bestCost)

\* the test that replaces the best assignment
isBetter(unassignedModCount, energyUsedAndWasted, bestCount, bestCost) ==
  \/ unassignedModCount < bestCount
  \/ (unassignedModCount <= bestCount /\ energyUsedAndWasted < bestCost)

\* ---------------------------------------------------------------- merging
\* the merge with the two spreads the other way round
mergeAssignedSpecificFirst(independent, specific) == specific \o independent

\* [...bucketIndependentAssignments.get(item.id).assigned, ...bucketSpecificAssignments.get(item.id).assigned]
mergeAssigned(independent, specific) == independent \o specific

\* the loop that builds the flat unassigned list, item by item
RECURSIVE mergeUnassigned(_)
mergeUnassigned(i) ==
  IF i = 0 THEN << >>
  ELSE mergeUnassigned(i - 1)
       \o bucketIndependentAssignments[i].unassigned
       \o bucketSpecificAssignments[i].unassigned

\* --------------------------------------------------------------- the machine
Init ==
  /\ items \in SeqsUpTo(ItemPool, MaxItems)
  /\ mods \in SeqsUpTo(ModPool, MaxMods)
  /\ defs \in BOOLEAN
  /\ lockItemEnergyType \in BOOLEAN
  /\ pc = "start"
  /\ bucketSpecificAssignments = << >>
  /\ itemEnergies = << >>
  /\ generalModPermutations = << >>
  /\ combatModPermutations = << >>
  /\ activityModPermutations = << >>
  /\ ai = 0 /\ ci = 0 /\ gi = 0
  /\ bucketIndependentAssignments = << >>
  /\ assignmentEnergyCost = InitialEnergyCost
  /\ assignmentUnassignedModCount = InitialUnassignedModCount
  /\ lastOutcome = "none"
  /\ mergedResults = << >>
  /\ unassigned = << >>

\* everything up to the triple loop: the maps are initialised, the mods divided
\* up, the energies and the permutations built
prepareSearch ==
  /\ LET divided == divideMods(Len(mods))
     IN /\ bucketSpecificAssignments' = divided.bucketSpecific
        /\ itemEnergies' = [i \in DOMAIN items |->
                              buildItemEnergy(items[i], divided.bucketSpecific[i].assigned)]
        /\ generalModPermutations' = generateModPermutations(divided.generalMods)
        /\ combatModPermutations' = generateModPermutations(divided.combatMods)
        /\ activityModPermutations' = generateModPermutations(divided.activityMods)
  /\ bucketIndependentAssignments' = emptyAssignments
  /\ ai' = 1 /\ ci' = 1 /\ gi' = 1
  /\ pc' = "search"
  /\ UNCHANGED << items, mods, defs, lockItemEnergyType,
                  assignmentEnergyCost, assignmentUnassignedModCount,
                  lastOutcome, mergedResults, unassigned >>

\* a function that forgets the early return and carries on without definitions
NoDefsCarriesOn == pc = "start" /\ ~defs /\ prepareSearch

\* if (!defs) return [new Map(), []]
NoDefs ==
  /\ pc = "start" /\ ~defs
  /\ pc' = "done"
  /\ mergedResults' = << >>
  /\ unassigned' = << >>
  /\ UNCHANGED << items, mods, defs, lockItemEnergyType,
                  bucketSpecificAssignments, itemEnergies,
                  generalModPermutations, combatModPermutations,
                  activityModPermutations, ai, ci, gi,
                  bucketIndependentAssignments, assignmentEnergyCost,
                  assignmentUnassignedModCount, lastOutcome >>

Prepare == pc = "start" /\ defs /\ prepareSearch

\* the triple the cursors point at, run through the loop over items
currentTriple ==
  itemLoop(1, 0, << >>, activityModPermutations[ai],
           combatModPermutations[ci], generalModPermutations[gi])

currentEnergy == energyOf(currentTriple.assignments, Len(currentTriple.assignments))

inSearch == pc = "search" /\ ai <= Len(activityModPermutations)

\* the three nested for loops move on to the next triple
advance ==
  IF gi < Len(generalModPermutations)
  THEN gi' = gi + 1 /\ UNCHANGED << ci, ai >>
  ELSE /\ gi' = 1
       /\ IF ci < Len(combatModPermutations)
          THEN ci' = ci + 1 /\ UNCHANGED ai
          ELSE ci' = 1 /\ ai' = ai + 1

searchFrame ==
  UNCHANGED << items, mods, defs, lockItemEnergyType, pc,
               bucketSpecificAssignments, itemEnergies,
               generalModPermutations, combatModPermutations,
               activityModPermutations, mergedResults, unassigned >>

\* continue modLoop: the triple is given up part way through the items
AbandonTriple ==
  /\ inSearch
  /\ ~currentTriple.completed
  /\ lastOutcome' = "abandoned"
  /\ advance
  /\ UNCHANGED << bucketIndependentAssignments, assignmentEnergyCost,
                  assignmentUnassignedModCount >>
  /\ searchFrame

\* the triple ran over every item and is no better than the best so far
KeepBest ==
  /\ inSearch
  /\ currentTriple.completed
  /\ ~isBetter(currentTriple.unassignedModCount, currentEnergy,
               assignmentUnassignedModCount, assignmentEnergyCost)
  /\ lastOutcome' = "kept"
  /\ advance
  /\ UNCHANGED << bucketIndependentAssignments, assignmentEnergyCost,
                  assignmentUnassignedModCount >>
  /\ searchFrame

\* the triple ran over every item and replaces the best so far
ReplaceBest ==
  /\ inSearch
  /\ currentTriple.completed
  /\ isBetter(currentTriple.unassignedModCount, currentEnergy,
              assignmentUnassignedModCount, assignmentEnergyCost)
  /\ bucketIndependentAssignments' = currentTriple.assignments
  /\ assignmentEnergyCost' = currentEnergy
  /\ assignmentUnassignedModCount' = currentTriple.unassignedModCount
  /\ lastOutcome' = "replaced"
  /\ advance
  /\ searchFrame

\* after the loops: the merged results and the flat unassigned list are returned
Merge ==
  /\ pc = "search" /\ ai > Len(activityModPermutations)
  /\ mergedResults' = [i \in DOMAIN items |->
                         mergeAssigned(bucketIndependentAssignments[i].assigned,
                                       bucketSpecificAssignments[i].assigned)]
  /\ unassigned' = mergeUnassigned(Len(items))
  /\ pc' = "done"
  /\ UNCHANGED << items, mods, defs, lockItemEnergyType,
                  bucketSpecificAssignments, itemEnergies,
                  generalModPermutations, combatModPermutations,
                  activityModPermutations, ai, ci, gi,
                  bucketIndependentAssignments, assignmentEnergyCost,
                  assignmentUnassignedModCount, lastOutcome >>

Next == NoDefs \/ Prepare \/ AbandonTriple \/ KeepBest \/ ReplaceBest \/ Merge

Spec == Init /\ [][Next]_vars

\* ------------------------------------------------------------- properties
Range(f) == { f[x] : x \in DOMAIN f }

RECURSIVE totalLen(_, _)
totalLen(lists, i) == IF i = 0 THEN 0 ELSE totalLen(lists, i - 1) + Len(lists[i])

\* how often mod m occurs in the returned pair
occurrences(m) ==
  Cardinality({ <<i, p>> \in (DOMAIN mergedResults) \X (1..MaxMods + 1) :
                  p \in DOMAIN mergedResults[i] /\ mergedResults[i][p] = m })
  + Cardinality({ p \in DOMAIN unassigned : unassigned[p] = m })

sharedPlugCategoryHashes ==
  {armor2PlugCategoryHashesByName.general} \cup combatCompatiblePlugCategoryHashes
    \cup activityModPlugCategoryHashes

returned == pc = "done" /\ defs

\* C1: with definitions present every input mod comes back exactly once, in
\* an item's assigned list or in the unassigned list
C1_Conservation ==
  returned =>
    /\ Len(mods) = totalLen(mergedResults, Len(mergedResults)) + Len(unassigned)
    /\ \A m \in DOMAIN mods : occurrences(m) = 1

\* C2: the mods returned for an item never cost more than the item's derived
\* energy capacity
C2_CapacityInvariant ==
  returned =>
    \A i \in DOMAIN items :
      sumCost(mergedResults[i]) <= upgradeSpendTierToMaxEnergy(items[i])

\* an item that got bucket specific mods and mods from the search and is full
C2_Witness ==
  /\ returned
  /\ \E i \in DOMAIN items :
       /\ bucketSpecificAssignments[i].assigned # << >>
       /\ bucketIndependentAssignments[i].assigned # << >>
       /\ sumCost(mergedResults[i]) = upgradeSpendTierToMaxEnergy(items[i])

\* C4 as stated: the bucket specific mods come first in an item's list, the
\* mods of the search winner after them
C4_SpecificFirst ==
  returned =>
    \A i \in DOMAIN items :
      mergedResults[i] = bucketSpecificAssignments[i].assigned
                           \o bucketIndependentAssignments[i].assigned

\* C4 amended: an item's list is the mods of the search winner first, then the
\* item's bucket specific mods in input order
C4_MergeOrder ==
  returned =>
    \A i \in DOMAIN items :
      LET k == Len(bucketIndependentAssignments[i].assigned)
      IN /\ Len(mergedResults[i]) = k + Len(bucketSpecificAssignments[i].assigned)
         /\ SubSeq(mergedResults[i], 1, k) = bucketIndependentAssignments[i].assigned
         /\ \A p \in DOMAIN mergedResults[i] :
              IF p <= k
              THEN mods[mergedResults[i][p]].pch \in sharedPlugCategoryHashes
              ELSE /\ mods[mergedResults[i][p]].pch = bucketsToCategories[items[i].bucket]
                   /\ mergedResults[i][p] = bucketSpecificAssignments[i].assigned[p - k]
                   /\ p > k + 1 => mergedResults[i][p - 1] < mergedResults[i][p]

\* an item that got two bucket specific mods and a mod from the search
C4_Witness ==
  /\ returned
  /\ \E i \in DOMAIN items :
       /\ Len(bucketSpecificAssignments[i].assigned) >= 2
       /\ bucketIndependentAssignments[i].assigned # << >>

\* C5: without definitions the function returns the empty map and the empty
\* list, and neither the division of the mods nor the search has run
C5_NoDefinitions ==
  (pc = "done" /\ ~defs) =>
    /\ mergedResults = << >>
    /\ unassigned = << >>
    /\ bucketSpecificAssignments = << >>
    /\ itemEnergies = << >>
    /\ activityModPermutations = << >>
    /\ bucketIndependentAssignments = << >>
    /\ lastOutcome = "none"
    /\ assignmentUnassignedModCount = InitialUnassignedModCount

\* the early return taken with items and mods at hand
C5_Witness ==
  /\ pc = "done" /\ ~defs
  /\ Len(items) = MaxItems
  /\ Len(mods) = MaxMods

\* the mods of the three shared pools
sharedMods == { m \in DOMAIN mods : mods[m].pch \in sharedPlugCategoryHashes }

taggedPlugCategoryHashes == combatCompatiblePlugCategoryHashes \cup activityModPlugCategoryHashes

\* the item's socket metadata accepts the mod type tag of mod m
tagFits(m, i) ==
  /\ getModTypeTagByPlugCategoryHash(mods[m].pch) # NoTag
  /\ \E metadata \in items[i].socketMetadata :
       getModTypeTagByPlugCategoryHash(mods[m].pch) \in metadata

RECURSIVE setCost(_)
setCost(S) ==
  IF S = {} THEN 0
  ELSE LET m == CHOOSE x \in S : TRUE IN mods[m].cost + setCost(S \ {m})

\* a placement puts every shared mod on one item or on none (0); it is valid
\* when every item takes at most one mod of a pool, each mod passes the energy
\* type and the tag test of its item, and the mods of an item fit its capacity
validPlacement(f) ==
  \A i \in DOMAIN items :
    LET here == { m \in sharedMods : f[m] = i }
    IN /\ itemEnergies[i].used + setCost(here) <= itemEnergies[i].derivedCapacity
       /\ \A m \in here :
            /\ isModEnergyValid(itemEnergies[i], m, << >>)
            /\ mods[m].pch \in taggedPlugCategoryHashes => tagFits(m, i)
       /\ \A m1, m2 \in here : m1 # m2 => mods[m1].pch # mods[m2].pch

\* C3: no valid placement of the shared mods leaves fewer of them without an
\* item than the returned result does (taken over the results that return
\* every shared mod)
C3_FewestUnassigned ==
  (returned /\ \A m \in sharedMods : occurrences(m) = 1) =>
    \A f \in [sharedMods -> 0..Len(items)] :
      validPlacement(f) =>
        Cardinality({ m \in sharedMods : f[m] = 0 })
          >= Cardinality(sharedMods \cap Range(unassigned))

\* C6: a combat or activity mod is returned on an item only if the item's
\* socket metadata has the mod's tag; and with two items and, as the only
\* shared mod, an activity mod that only the second item accepts, the mod is
\* returned on the second item
C6_TagCompatibility ==
  returned =>
    /\ \A i \in DOMAIN items : \A m \in Range(mergedResults[i]) :
         mods[m].pch \in taggedPlugCategoryHashes => tagFits(m, i)
    /\ \A m \in sharedMods :
         ( /\ Len(items) = 2
           /\ sharedMods = {m}
           /\ mods[m].pch \in activityModPlugCategoryHashes
           /\ ~tagFits(m, 1)
           /\ isActivityModValid(m, items[2].socketMetadata, itemEnergies[2]) )
         => /\ bucketIndependentAssignments[2].assigned = << m >>
            /\ bucketIndependentAssignments[1] = [assigned |-> << >>, unassigned |-> << >>]
            /\ m \in Range(mergedResults[2])
            /\ m \notin Range(unassigned)

\* the two item case of C6, after the permutation with the mod on the first
\* item was tried
C6_Witness ==
  /\ returned
  /\ Len(items) = 2
  /\ \E m \in sharedMods :
       /\ sharedMods = {m}
       /\ mods[m].pch \in activityModPlugCategoryHashes
       /\ ~tagFits(m, 1)
       /\ m \in Range(mergedResults[2])
       /\ activityModPermutations[1][1] = m

lexLess(c1, e1, c2, e2) == c1 < c2 \/ (c1 = c2 /\ e1 < e2)

\* how many triples the loops have gone through
triplesDone ==
  ((ai - 1) * Len(combatModPermutations) + (ci - 1)) * Len(generalModPermutations)
    + (gi - 1)

\* C7: a step of the search never raises the best unassigned count, never
\* raises the best energy cost at an equal count, and changes the best
\* assignment exactly when the triple completed with a lexicographically
\* smaller (count, cost), to that triple's assignment and keys
C7_MonotonicImprovement ==
  [][ inSearch =>
        /\ assignmentUnassignedModCount' <= assignmentUnassignedModCount
        /\ assignmentUnassignedModCount' = assignmentUnassignedModCount
             => assignmentEnergyCost' <= assignmentEnergyCost
        /\ IF /\ currentTriple.completed
              /\ lexLess(currentTriple.unassignedModCount, currentEnergy,
                         assignmentUnassignedModCount, assignmentEnergyCost)
           THEN /\ bucketIndependentAssignments' = currentTriple.assignments
                /\ assignmentUnassignedModCount' = currentTriple.unassignedModCount
                /\ assignmentEnergyCost' = currentEnergy
           ELSE UNCHANGED << bucketIndependentAssignments, assignmentEnergyCost,
                             assignmentUnassignedModCount >> ]_vars

\* a best assignment that is not the first triple's, with more triples to come
C7_Witness ==
  /\ inSearch
  /\ lastOutcome = "replaced"
  /\ triplesDone >= 2

\* a triple evaluated over every item, with no early exit
fullTriple(t) ==
  [i \in DOMAIN items |->
     itemAssignment(i, activityModPermutations[t[1]], combatModPermutations[t[2]],
                    generalModPermutations[t[3]])]

RECURSIVE fullCount(_, _)
fullCount(assignments, i) ==
  IF i = 0 THEN 0 ELSE fullCount(assignments, i - 1) + Len(assignments[i].unassigned)

allTriples ==
  (DOMAIN activityModPermutations) \X (DOMAIN combatModPermutations)
    \X (DOMAIN generalModPermutations)

\* t comes before u in the order of the three nested loops
before(t, u) ==
  \/ t[1] < u[1]
  \/ (t[1] = u[1] /\ t[2] < u[2])
  \/ (t[1] = u[1] /\ t[2] = u[2] /\ t[3] < u[3])

\* the (unassigned count, energy cost) of triple t over all items
fullKey(t) ==
  LET full == fullTriple(t)
  IN << fullCount(full, Len(items)), energyOf(full, Len(items)) >>

\* C8: the returned winner is the first triple, in loop order, whose
\* (unassigned count, energy cost) over all items is lexicographically least
C8_EarlyExitSound ==
  returned =>
    LET best == << assignmentUnassignedModCount, assignmentEnergyCost >>
    IN /\ \A u \in allTriples :
            LET k == fullKey(u) IN ~lexLess(k[1], k[2], best[1], best[2])
       /\ \E t \in allTriples :
            /\ bucketIndependentAssignments = fullTriple(t)
            /\ fullKey(t) = best
            /\ \A u \in allTriples : before(u, t) => fullKey(u) # best

\* a search that ended on a triple it gave up early
C8_Witness ==
  /\ returned
  /\ lastOutcome = "abandoned"
  /\ Len(items) = MaxItems

\* calculateEnergyChange of C9 takes the branch for a changed energy type
typeChanges(itemEnergy, assignedMods) ==
  /\ finalEnergyType(itemEnergy, assignedMods) # itemEnergy.originalType
  /\ finalEnergyType(itemEnergy, assignedMods) # "Any"

\* the same energy, had the item started with the final energy type
withFinalType(itemEnergy, assignedMods) ==
  [itemEnergy EXCEPT !.originalType = finalEnergyType(itemEnergy, assignedMods)]

modLists == SeqsUpTo(DOMAIN mods, 2)

\* C9 as stated: for every item energy and every list of mods a changed energy
\* type costs strictly more than the same mods would without the change
C9_StrictlyMore ==
  returned =>
    \A i \in DOMAIN items : \A a \in modLists :
      typeChanges(itemEnergies[i], a) =>
        calculateEnergyChange(itemEnergies[i], a)
          > calculateEnergyChange(withFinalType(itemEnergies[i], a), a)

\* C9 amended: a changed energy type costs the total mod cost plus the original
\* capacity, which is never less than the cost without the change and strictly
\* more when the original capacity is above 0
C9_EnergyChangeAsymmetry ==
  returned =>
    \A i \in DOMAIN items : \A a \in modLists :
      typeChanges(itemEnergies[i], a) =>
        LET changed == calculateEnergyChange(itemEnergies[i], a)
            same == calculateEnergyChange(withFinalType(itemEnergies[i], a), a)
            totalCost == itemEnergies[i].used + sumCost(a)
        IN /\ changed = totalCost + itemEnergies[i].originalCapacity
           /\ same = Max(0, totalCost - itemEnergies[i].originalCapacity)
           /\ changed >= same
           /\ itemEnergies[i].originalCapacity > 0 => changed > same

\* the winner changes the energy type of an item with original capacity
C9_Witness ==
  /\ returned
  /\ \E i \in DOMAIN items :
       /\ typeChanges(itemEnergies[i], bucketIndependentAssignments[i].assigned)
       /\ itemEnergies[i].originalCapacity > 0
       /\ assignmentEnergyCost
            >= sumCost(bucketIndependentAssignments[i].assigned)
                 + itemEnergies[i].originalCapacity

\* the combat and activity mods whose plug category hash has no mod type tag
untaggedMods ==
  { m \in DOMAIN mods : /\ mods[m].pch \in taggedPlugCategoryHashes
                        /\ getModTypeTagByPlugCategoryHash(mods[m].pch) = NoTag }

\* the mods that share the pool (activity or combat) of mod m
poolOf(m) ==
  IF mods[m].pch \in activityModPlugCategoryHashes
  THEN { x \in DOMAIN mods : mods[x].pch \in activityModPlugCategoryHashes }
  ELSE { x \in DOMAIN mods : mods[x].pch \in combatCompatiblePlugCategoryHashes }

\* C10 as stated: a combat or activity mod without a resolvable tag is in no
\* assigned list, not in the returned unassigned list and not counted
C10_SilentlyExcluded ==
  returned =>
    \A m \in untaggedMods :
      /\ \A i \in DOMAIN items : m \notin Range(mergedResults[i])
      /\ m \notin Range(unassigned)
      /\ \A i \in DOMAIN items : m \notin Range(bucketIndependentAssignments[i].unassigned)

\* C10 amended: such a mod is in no assigned list; when its pool is no larger
\* than the number of items it is once in the returned unassigned list, in the
\* winner's unassigned list of one item, and counted by the winner's count
C10_RecordedUnassigned ==
  returned =>
    /\ assignmentUnassignedModCount
         = fullCount(bucketIndependentAssignments, Len(items))
    /\ \A m \in untaggedMods :
         /\ \A i \in DOMAIN items : m \notin Range(mergedResults[i])
         /\ Cardinality(poolOf(m)) <= Len(items) =>
              /\ Cardinality({ p \in DOMAIN unassigned : unassigned[p] = m }) = 1
              /\ Cardinality({ i \in DOMAIN items :
                     m \in Range(bucketIndependentAssignments[i].unassigned) }) = 1

\* a mod without a tag returned as unassigned by a search over two items
C10_Witness ==
  /\ returned
  /\ Len(items) = 2
  /\ \E m \in untaggedMods : m \in Range(unassigned)
  /\ assignmentUnassignedModCount >= 1

\* the concrete energy types of the mods of a list
concreteTypes(ms) == { mods[m].type : m \in Range(ms) } \ {"Any"}

\* C11: the mods returned for an item carry at most one concrete energy type,
\* and when the item's derived energy type is concrete, no other one
C11_TypeConsistency ==
  returned =>
    \A i \in DOMAIN items :
      /\ Cardinality(concreteTypes(mergedResults[i])) <= 1
      /\ itemEnergies[i].derivedType # "Any" =>
           concreteTypes(mergedResults[i]) \subseteq {itemEnergies[i].derivedType}

====
